---- MODULE Spec2Model ----
(***************************************************************************)
(* IP forwarding (src/main.py): a routing table is built from the lines of *)
(* a setup file, and every address of an input file is resolved to the     *)
(* port of the matching route with the longest prefix.                     *)
(*                                                                         *)
(* Python integers are unbounded and IPv4 addresses are 32 bits wide, so   *)
(* an integer is kept as two limbs, value = hi * 2^16 + lo with            *)
(* lo \in 0..2^16-1 and hi any natural number.                             *)
(***************************************************************************)
EXTENDS Integers, Sequences, FiniteSets, TLC

VARIABLES pc, line, lines_read, rs_table, routing_table, ips_to_forward,
          ip_index, matches, stdout, exception, raised_in,
          m_pc, m_prefix, m_string, m_int, m_mask

main_vars == <<pc, line, lines_read, rs_table, routing_table, ips_to_forward,
               ip_index, matches, stdout, exception, raised_in>>
mask_vars == <<m_pc, m_prefix, m_string, m_int, m_mask>>
vars == <<pc, line, lines_read, rs_table, routing_table, ips_to_forward,
          ip_index, matches, stdout, exception, raised_in,
          m_pc, m_prefix, m_string, m_int, m_mask>>

\* ---------------------------------------------------------------- bounds
\* Most lines read from the setup file, most lines of the input file.
MaxLines == 2
MaxCands == 2
\* calc_subnet_mask is tried on every prefix in -LowPrefix..HighPrefix.
LowPrefix == 2
HighPrefix == 34

\* ------------------------------------------------------------- integers
Limb == 2^16

Int2(h, l) == [hi |-> h, lo |-> l]

\* The greatest IPv4 address value, 2^32 - 1 (ipaddress: IPv4Address._ALL_ONES).
ALL_ONES == Int2(Limb - 1, Limb - 1)

RECURSIVE And16(_, _)
And16(a, b) ==
    IF a = 0 \/ b = 0 THEN 0
    ELSE (a % 2) * (b % 2) + 2 * And16(a \div 2, b \div 2)

\* Python's  x & y  on two non-negative integers below 2^32.
BitAnd(x, y) == Int2(And16(x.hi, y.hi), And16(x.lo, y.lo))

\* ---------------------------------------------------------------- text
\* A text is a sequence of atoms: a separator, a blank, a decimal integer,
\* a dotted group of decimal numbers, or a word that is none of these.
Comma == [k |-> "comma", v |-> <<>>]
Slash == [k |-> "slash", v |-> <<>>]
Space == [k |-> "space", v |-> <<>>]
Word == [k |-> "word", v |-> <<>>]
Num(n) == [k |-> "int", v |-> <<n>>]
Dotted(o) == [k |-> "dotted", v |-> o]

\* str.split(sep): the pieces between the separators, always at least one.
RECURSIVE split(_, _)
split(s, sep) ==
    IF s = <<>> THEN << <<>> >>
    ELSE LET rest == split(Tail(s), sep)
         IN  IF Head(s) = sep THEN << <<>> >> \o rest
             ELSE << <<Head(s)>> \o Head(rest) >> \o Tail(rest)

\* str.strip(): leading and trailing blanks removed.
RECURSIVE lstrip(_)
lstrip(s) == IF s # <<>> /\ Head(s) = Space THEN lstrip(Tail(s)) ELSE s

RECURSIVE rstrip(_)
rstrip(s) ==
    IF s # <<>> /\ s[Len(s)] = Space THEN rstrip(SubSeq(s, 1, Len(s) - 1)) ELSE s

strip(s) == rstrip(lstrip(s))

\* A call either returns a value or raises an exception.
Return(x) == [exc |-> "none", val |-> <<x>>]
Raise(e) == [exc |-> e, val |-> <<>>]
Value(r) == r.val[1]

\* int(text): the integer a text spells, ValueError for any other text.
int(s) ==
    IF Len(s) = 1 /\ s[1].k = "int" THEN Return(s[1].v[1]) ELSE Raise("ValueError")

\* ipaddress.IPv4Address(text): four octets in 0..255, most significant first.
IPv4AddressOfText(s) ==
    IF /\ Len(s) = 1
       /\ s[1].k = "dotted"
       /\ Len(s[1].v) = 4
       /\ \A i \in 1..4 : s[1].v[i] \in 0..255
    THEN LET o == s[1].v
         IN  Return(Int2(o[1] * 256 + o[2], o[3] * 256 + o[4]))
    ELSE Raise("AddressValueError")

\* ipaddress.IPv4Address(integer): the integer must fit in 32 bits.
IPv4AddressOfInt(n) ==
    IF n.hi >= 0 /\ n.hi <= ALL_ONES.hi THEN Return(n) ELSE Raise("AddressValueError")

\* format(ip_address): the dotted-decimal text of an address.
format(a) ==
    << Dotted(<<a.hi \div 256, a.hi % 256, a.lo \div 256, a.lo % 256>>) >>

\* ------------------------------------------------------ calc_subnet_mask
subnet_mask_length == 32

\* Python's  c * n  on a one-character text: empty when n is not positive.
Rep(c, n) == IF n <= 0 THEN <<>> ELSE [i \in 1..n |-> c]

\* The digits in the wrong order: the zeros first.
subnet_mask_binary_zeros_first(prefix) ==
    Rep(0, subnet_mask_length - prefix) \o Rep(1, prefix)

\* Line 70: prefix ones, then the zeros that fill up to subnet_mask_length
\* (joining the characters of a text with '' gives the text back).
subnet_mask_binary(prefix) ==
    Rep(1, prefix) \o Rep(0, subnet_mask_length - prefix)

\* Line 71, int(text, 2): most significant digit first; no digits is an error.
\* The last 16 digits make the low limb, the digits before them the high one.
RECURSIVE base2(_, _)
base2(s, n) == IF n = 0 THEN 0 ELSE 2 * base2(s, n - 1) + s[n]

int_base2(s) ==
    IF s = <<>> THEN Raise("ValueError")
    ELSE LET cut == IF Len(s) > 16 THEN Len(s) - 16 ELSE 0
             high == SubSeq(s, 1, cut)
             low == SubSeq(s, cut + 1, Len(s))
         IN  Return(Int2(base2(high, Len(high)), base2(low, Len(low))))

calc_subnet_mask(prefix) ==
    LET n == int_base2(subnet_mask_binary(prefix))
    IN  IF n.exc # "none" THEN n ELSE IPv4AddressOfInt(Value(n))

\* ----------------------------------------------------- apply_subnet_mask
apply_subnet_mask(ip, mask) == Value(IPv4AddressOfInt(BitAnd(ip, mask)))

\* ipaddress.ip_interface of an address, and of a text without a '/': the
\* address as a host interface.
ip_interface(a) == Return([ip |-> a, prefixlen |-> 32])

ip_interface_of_text(s) ==
    LET a == IPv4AddressOfText(s)
    IN  IF a.exc # "none" THEN a ELSE ip_interface(Value(a))

\* -------------------------------------------------------- calc_dest_port
\* Line 90: the masked given address against the route's stored address.
route_matches(route, given_ip) ==
    ip_interface(apply_subnet_mask(given_ip, route.SubnetMask))
        = ip_interface_of_text(route.IPAddress)

\* Lines 85-92.
collect_matches(table, given_ip) ==
    SelectSeq(table, LAMBDA route : route_matches(route, given_ip))

\* The comparison turned round, and the comparison that also takes an equal.
shorter_prefix(match, longest_prefix) == match.Prefix < longest_prefix.Prefix

longer_or_equal_prefix(match, longest_prefix) == match.Prefix >= longest_prefix.Prefix

\* Line 97.
longer_prefix(match, longest_prefix) == match.Prefix > longest_prefix.Prefix

\* Lines 96-98.
RECURSIVE scan_longest_prefix(_, _, _)
scan_longest_prefix(ms, i, longest_prefix) ==
    IF i > Len(ms) THEN longest_prefix
    ELSE scan_longest_prefix(ms, i + 1,
             IF longer_prefix(ms[i], longest_prefix) THEN ms[i] ELSE longest_prefix)

\* No match answered with a default port instead of an exception.
select_port_or_default(ms) ==
    IF ms = <<>> THEN Return(0)
    ELSE Return(scan_longest_prefix(ms, 1, ms[1]).Port)

\* Lines 94-100, on the matches collected.
select_port(ms) ==
    IF ms = <<>> THEN Raise("IndexError")
    ELSE Return(scan_longest_prefix(ms, 1, ms[1]).Port)

calc_dest_port(table, given_ip) ==
    IF \E i \in 1..Len(table) : ip_interface_of_text(table[i].IPAddress).exc # "none"
    THEN Raise("AddressValueError")
    ELSE select_port(collect_matches(table, given_ip))

\* ------------------------------------------------------- read_setup_file
\* Lines 35-55 on one line of the file: the entry appended, or the exception.
parse_setup_line(l) ==
    LET parts == split(l, Comma)
    IN  IF Len(parts) < 2 THEN Raise("IndexError")
        ELSE
        LET iso_prefix == split(strip(parts[2]), Slash)
            port_number == strip(parts[1])
            ip_address == IPv4AddressOfText(strip(iso_prefix[1]))
            prefix == IF Len(iso_prefix) # 2 THEN Return(32)
                      ELSE int(strip(iso_prefix[2]))
        IN  IF ip_address.exc # "none" THEN ip_address
            ELSE IF prefix.exc # "none" THEN prefix
            ELSE
            LET subnet_mask == calc_subnet_mask(Value(prefix))
                port == int(port_number)
            IN  IF subnet_mask.exc # "none" THEN subnet_mask
                ELSE IF port.exc # "none" THEN port
                ELSE Return([Port |-> Value(port),
                             IPAddress |-> format(Value(ip_address)),
                             Prefix |-> Value(prefix),
                             SubnetMask |-> Value(subnet_mask)])

\* Lines 21-22 on one line of the input file.
parse_input_line(l) == IPv4AddressOfText(strip(l))

\* Lines 18-23: every line parsed in order; the first bad line raises.
RECURSIVE read_input_file(_)
read_input_file(file) ==
    IF file = <<>> THEN Return(<<>>)
    ELSE LET a == parse_input_line(Head(file))
             rest == read_input_file(Tail(file))
         IN  IF a.exc # "none" THEN a
             ELSE IF rest.exc # "none" THEN rest
             ELSE Return(<<Value(a)>> \o Value(rest))

\* ---------------------------------------------------------------- inputs
\* The lines a setup file may hold: "<port>, <address>[/<prefix>]" over two
\* ports, a network base and a host address of it, with no prefix or /8; a
\* /24 route; and one line for each other shape the code can meet.
Ports == {1, 2}
Net10 == <<10, 0, 0, 0>>
Host10 == <<10, 0, 0, 5>>
Suffixes == { <<>>, <<Slash, Num(8)>> }

SetupLine(port, addr, suffix) == <<port, Comma, Space, Dotted(addr)>> \o suffix

SetupLines ==
    { SetupLine(Num(p), a, x) : p \in Ports, a \in {Net10, Host10}, x \in Suffixes }
    \cup { SetupLine(Num(2), Net10, <<Slash, Num(24)>>),
           SetupLine(Num(1), Net10, <<Slash, Num(8), Slash, Num(24)>>),
           SetupLine(Num(1), Net10, <<Slash, Num(-1)>>),
           SetupLine(Num(1), Net10, <<Slash, Num(33)>>),
           SetupLine(Num(1), Net10, <<Slash, Word>>),
           SetupLine(Num(1), <<10, 0, 0, 256>>, <<Slash, Num(8)>>),
           SetupLine(Word, Net10, <<Slash, Num(8)>>),
           <<Num(1)>> }

\* The lines an input file may hold: an address, or a text that is none.
InputLines ==
    { <<Dotted(a)>> : a \in {Host10, <<10, 1, 2, 3>>, <<8, 8, 8, 8>>} }
    \cup { <<Word>> }

RECURSIVE SeqsUpTo(_, _)
SeqsUpTo(S, n) ==
    IF n = 0 THEN { <<>> }
    ELSE LET shorter == SeqsUpTo(S, n - 1)
         IN  shorter \cup { Append(q, x) : q \in shorter, x \in S }

InputFiles == SeqsUpTo(InputLines, MaxCands)

\* ------------------------------------------------------------------ main
Unbound == [bound |-> FALSE, val |-> <<>>]
Bound(x) == [bound |-> TRUE, val |-> x]

MainIdle ==
    /\ pc = "idle"
    /\ line = <<>>
    /\ lines_read = 0
    /\ rs_table = <<>>
    /\ routing_table = Unbound
    /\ ips_to_forward = Unbound
    /\ ip_index = 0
    /\ matches = <<>>
    /\ stdout = <<>>
    /\ exception = "none"
    /\ raised_in = "none"

MaskIdle ==
    /\ m_pc = "idle"
    /\ m_prefix = 0
    /\ m_string = <<>>
    /\ m_int = Int2(0, 0)
    /\ m_mask = Unbound

\* main has called read_setup_file, which holds an empty table (line 31).
Init ==
    /\ pc = "read_setup_file"
    /\ line = <<>>
    /\ lines_read = 0
    /\ rs_table = <<>>
    /\ routing_table = Unbound
    /\ ips_to_forward = Unbound
    /\ ip_index = 0
    /\ matches = <<>>
    /\ stdout = <<>>
    /\ exception = "none"
    /\ raised_in = "none"
    /\ MaskIdle

\* An exception nobody catches ends the process.
Crash(e, where) ==
    /\ pc' = "crashed"
    /\ exception' = e
    /\ raised_in' = where

\* A bad line reported and skipped instead of ending the process.
ReadSetupLineSkippingBad ==
    /\ pc = "read_setup_file"
    /\ lines_read < MaxLines
    /\ \E l \in SetupLines :
         LET r == parse_setup_line(l)
         IN  /\ line' = l
             /\ lines_read' = lines_read + 1
             /\ IF r.exc = "none"
                THEN /\ rs_table' = Append(rs_table, Value(r))
                     /\ UNCHANGED <<pc, exception, raised_in>>
                ELSE /\ exception' = r.exc
                     /\ raised_in' = "read_setup_file"
                     /\ UNCHANGED <<pc, rs_table>>
    /\ UNCHANGED <<routing_table, ips_to_forward, ip_index, matches, stdout>>
    /\ UNCHANGED mask_vars

\* One turn of the loop of line 34: the next line of the setup file.
ReadSetupLine ==
    /\ pc = "read_setup_file"
    /\ lines_read < MaxLines
    /\ \E l \in SetupLines :
         LET r == parse_setup_line(l)
         IN  /\ line' = l
             /\ lines_read' = lines_read + 1
             /\ IF r.exc = "none"
                THEN /\ rs_table' = Append(rs_table, Value(r))
                     /\ UNCHANGED <<pc, exception, raised_in>>
                ELSE /\ Crash(r.exc, "read_setup_file")
                     /\ UNCHANGED rs_table
    /\ UNCHANGED <<routing_table, ips_to_forward, ip_index, matches, stdout>>
    /\ UNCHANGED mask_vars

\* The setup file ends: line 58 returns the table to main (line 129), and
\* format_routing_table prints its rows (line 130).
ReturnTable ==
    /\ pc = "read_setup_file"
    /\ routing_table' = Bound(rs_table)
    /\ stdout' = [i \in 1..Len(rs_table) |-> [row |-> rs_table[i]]]
    /\ pc' = "read_input_file"
    /\ UNCHANGED <<line, lines_read, rs_table, ips_to_forward, ip_index, matches,
                   exception, raised_in>>
    /\ UNCHANGED mask_vars

\* Line 133: the whole input file is read before any address is resolved.
ReadInputFile ==
    /\ pc = "read_input_file"
    /\ \E file \in InputFiles :
         LET r == read_input_file(file)
         IN  IF r.exc = "none"
             THEN /\ ips_to_forward' = Bound(Value(r))
                  /\ pc' = "forward"
                  /\ UNCHANGED <<exception, raised_in>>
             ELSE /\ Crash(r.exc, "read_input_file")
                  /\ UNCHANGED ips_to_forward
    /\ UNCHANGED <<line, lines_read, rs_table, routing_table, ip_index, matches, stdout>>
    /\ UNCHANGED mask_vars

\* One turn of the loop of line 135: the next address is resolved and its
\* port printed.
Forward ==
    /\ pc = "forward"
    /\ ip_index < Len(ips_to_forward.val)
    /\ LET ip == ips_to_forward.val[ip_index + 1]
           correct_port == calc_dest_port(routing_table.val, ip)
       IN  /\ ip_index' = ip_index + 1
           /\ matches' = collect_matches(routing_table.val, ip)
           /\ IF correct_port.exc = "none"
              THEN /\ stdout' = Append(stdout, [port |-> Value(correct_port)])
                   /\ UNCHANGED <<pc, exception, raised_in>>
              ELSE /\ Crash(correct_port.exc, "calc_dest_port")
                   /\ UNCHANGED stdout
    /\ UNCHANGED <<line, lines_read, rs_table, routing_table, ips_to_forward>>
    /\ UNCHANGED mask_vars

\* The loop of line 135 ends and main returns.
Exit ==
    /\ pc = "forward"
    /\ ip_index = Len(ips_to_forward.val)
    /\ pc' = "done"
    /\ UNCHANGED <<line, lines_read, rs_table, routing_table, ips_to_forward,
                   ip_index, matches, stdout, exception, raised_in>>
    /\ UNCHANGED mask_vars

Next == ReadSetupLine \/ ReturnTable \/ ReadInputFile \/ Forward \/ Exit

Spec == Init /\ [][Next]_vars

\* ------------------------------------------- calc_subnet_mask, by line
\* A call of calc_subnet_mask with any prefix of the range.
MaskInit ==
    /\ MainIdle
    /\ m_pc = "line70"
    /\ m_prefix \in (0 - LowPrefix)..HighPrefix
    /\ m_string = <<>>
    /\ m_int = Int2(0, 0)
    /\ m_mask = Unbound

MaskLine70 ==
    /\ m_pc = "line70"
    /\ m_string' = subnet_mask_binary(m_prefix)
    /\ m_pc' = "line71"
    /\ UNCHANGED <<m_prefix, m_int, m_mask>>
    /\ UNCHANGED main_vars

MaskLine71 ==
    /\ m_pc = "line71"
    /\ LET n == int_base2(m_string)
       IN  IF n.exc = "none"
           THEN m_int' = Value(n) /\ m_pc' = "line72"
           ELSE m_pc' = "raised" /\ UNCHANGED m_int
    /\ UNCHANGED <<m_prefix, m_string, m_mask>>
    /\ UNCHANGED main_vars

MaskLine72 ==
    /\ m_pc = "line72"
    /\ LET a == IPv4AddressOfInt(m_int)
       IN  IF a.exc = "none"
           THEN m_mask' = Bound(Value(a)) /\ m_pc' = "return"
           ELSE m_pc' = "raised" /\ UNCHANGED m_mask
    /\ UNCHANGED <<m_prefix, m_string, m_int>>
    /\ UNCHANGED main_vars

MaskNext == MaskLine70 \/ MaskLine71 \/ MaskLine72

SpecMask == MaskInit /\ [][MaskNext]_vars

\* ---------------------------------------------------------------- claims
\* The address the last turn of the forwarding loop resolved, the table it
\* was resolved against, and what the run printed last.
Resolved == ip_index >= 1
LastGivenIp == ips_to_forward.val[ip_index]
Table == routing_table.val
LastPrinted == stdout[Len(stdout)]
PortPrinted ==
    /\ pc # "crashed"
    /\ Len(stdout) = Len(Table) + ip_index

Network(route) == Value(IPv4AddressOfText(route.IPAddress))
Recorded(route) == \E k \in 1..Len(matches) : matches[k] = route

\* Both sides masked: the candidate and the stored network address.
MatchesMasked(route, ip) ==
    BitAnd(ip, route.SubnetMask) = BitAnd(Network(route), route.SubnetMask)

C2_BothSidesMasked ==
    Resolved =>
        \A i \in 1..Len(Table) :
            Recorded(Table[i]) <=> MatchesMasked(Table[i], LastGivenIp)

\* C3: resolving an address equal to an entry's configured address records
\* that entry as a match, whatever its prefix length and host bits.
C3_Reflexive ==
    Resolved =>
        \A i \in 1..Len(Table) :
            Table[i].IPAddress = format(LastGivenIp) => Recorded(Table[i])

\* C4: a resolution that fails because no entry matches does not stop the
\* run: the loop goes on to the addresses that follow.
C4_NoMatchDoesNotStop ==
    (Resolved /\ matches = <<>>) => pc # "crashed"

\* C5: when no entry of the table matches the address (the table may be
\* empty), the resolution fails and no port is returned for the address.
C5_NoMatchFails ==
    (Resolved /\ (matches = <<>> \/
                  \A i \in 1..Len(Table) : ~MatchesMasked(Table[i], LastGivenIp))) =>
        /\ pc = "crashed"
        /\ raised_in = "calc_dest_port"
        /\ Len(stdout) = Len(Table) + ip_index - 1

C5_Witness ==
    /\ Resolved
    /\ Table # <<>>
    /\ matches = <<>>
    /\ pc = "crashed"
    /\ exception = "IndexError"

\* C6: calc_subnet_mask returns no mask for a prefix length outside 0..32.
C6_InvalidPrefixFails ==
    m_pc = "return" => m_prefix \in 0..subnet_mask_length

\* The value (0xFFFFFFFF << k) & 0xFFFFFFFF = 2^32 - 2^k on the two limbs.
OnesShifted(k) ==
    IF k >= 16 THEN Int2(Limb - 2^(k - 16), 0) ELSE Int2(Limb - 1, Limb - 2^k)

\* Bit i of a 32-bit value, bit 1 the most significant.
Bit(v, i) ==
    IF i <= 16 THEN (v.hi \div 2^(16 - i)) % 2 ELSE (v.lo \div 2^(32 - i)) % 2

\* C7: for a prefix length p in 0..32 calc_subnet_mask returns
\* (0xFFFFFFFF << (32-p)) & 0xFFFFFFFF: p one-bits, then 32-p zero-bits;
\* 0 for p = 0 and 0xFFFFFFFF for p = 32.
C7_MaskValue ==
    (m_prefix \in 0..32 /\ m_pc \in {"return", "raised"}) =>
        /\ m_pc = "return"
        /\ m_mask = Bound(OnesShifted(32 - m_prefix))
        /\ \A i \in 1..32 : Bit(m_mask.val, i) = IF i <= m_prefix THEN 1 ELSE 0
        /\ (m_prefix = 0 => m_mask.val = Int2(0, 0))
        /\ (m_prefix = 32 => m_mask.val = ALL_ONES)

C7_Witness ==
    /\ m_pc = "return"
    /\ m_prefix = 24
    /\ format(m_mask.val) = <<Dotted(<<255, 255, 255, 0>>)>>

\* The entries of the table that match the address, by place in the table,
\* and those of them with the greatest prefix length.
MatchingPlaces == { i \in 1..Len(Table) : route_matches(Table[i], LastGivenIp) }
LongestPlaces ==
    { i \in MatchingPlaces : \A j \in MatchingPlaces : Table[j].Prefix <= Table[i].Prefix }

Separators(l) == Cardinality({ i \in 1..Len(l) : l[i] = Slash })

\* C9: a setup line whose address/prefix token has more than one '/' ends
\* table construction in a format error, and no entry is appended for it.
C9_TwoSeparatorsRejected ==
    (lines_read >= 1 /\ Separators(line) > 1) =>
        /\ pc = "crashed"
        /\ raised_in = "read_setup_file"
        /\ Len(rs_table) < lines_read

\* C10: when table construction fails on a setup line the run halts with no
\* table: main never holds the entries of the lines before it, nothing is
\* printed from them and no address is resolved.
C10_NoPartialTable ==
    raised_in = "read_setup_file" =>
        /\ pc = "crashed"
        /\ routing_table = Unbound
        /\ ips_to_forward = Unbound
        /\ stdout = <<>>
        /\ ip_index = 0
        /\ matches = <<>>

C10_Witness ==
    /\ raised_in = "read_setup_file"
    /\ pc = "crashed"
    /\ rs_table # <<>>
    /\ routing_table = Unbound

====
